---------------------------- MODULE Spec2Model ----------------------------
(***************************************************************************)
(* A model of the vimwiki-rs document model and parser error model:        *)
(*   - Located<T> and its element-only equality and hashing                *)
(*   - DefinitionListValue / DefinitionList (a HashMap keyed by terms)     *)
(*   - LangParserError: or, Display                                        *)
(*   - the paragraph production                                            *)
(*   - LazyRegion, Region and the region operations of Located             *)
(*   - the borrowed and owned forms of the elements, and StrictEq          *)
(*   - rendering an inline element and parsing the rendered text           *)
(*   - the errors of several alternatives folded with or                   *)
(*   - Program::run of the server                                          *)
(* Strings are sequences of one-character strings.  Every component has    *)
(* its own specification; the variables of the other components stay at    *)
(* their initial values under it.                                          *)
(***************************************************************************)
EXTENDS Integers, Sequences, FiniteSets, TLC

VARIABLES
    hs,        \* Located: a HashSet<Located<T>> (the set of stored entries)
    probe,     \* Located: the argument of the last HashSet::get on hs
    found,     \* Located: the result of the last HashSet::get on hs
    cmp,       \* Located: what ==, hash answered for the probe and each entry
    pairs,     \* DefinitionList: the Vec<(term, definitions)> it is built from
    dl,        \* DefinitionList: the list built from pairs, NotBuilt before
    dlProbe,   \* DefinitionList: the argument of the last get
    dlGot,     \* DefinitionList: the result of the last get
    dlCmp,     \* DefinitionList: what ==, hash answered for the probe and each key
    errA,      \* LangParserError: the error of the first alternative (self)
    errB,      \* LangParserError: the error of the second alternative (other)
    orOut,     \* LangParserError: the results of the calls errA.or(errB) so far
    dErr,      \* LangParserError: the error that is displayed
    shown,     \* LangParserError: the outcome of formatting dErr, NotShown before
    pIn,       \* paragraph: the Span the production is called with
    pc,        \* paragraph: where the call is: start, first, more, finish, done
    pPos,      \* paragraph: pos, the cursor the paragraph starts at
    pCur,      \* paragraph: input, the cursor inside the production
    pAcc,      \* paragraph: the components many1 has collected, line by line
    pOut,      \* paragraph: the IResult of the call, NotRun before it returns
    node,      \* region: a Located<T> built on a Span of the input
    nodeOp,    \* region: the last operation on node, its receiver and argument
    own,       \* elements: an element n, of some kind, borrowed or owned
    ownB,      \* elements: a second element of the same kind
    ownOut,    \* elements: n.to_borrowed().into_owned() and n.clone().into_owned()
    ownCmp,    \* elements: what == and strict_eq answered for own and ownB
    rtSrc,     \* round trip: the text an inline element is parsed from
    rtNode,    \* round trip: the result of parsing rtSrc, NotParsed before
    rtText,    \* round trip: the node's to_string(), None before
    rtAgain,   \* round trip: the result of parsing rtText, NotParsed before
    fAlts,     \* or fold: the errors of the alternatives, in the order tried
    fAcc,      \* or fold: the error kept so far, None before the first alternative
    fIdx,      \* or fold: the number of alternatives tried
    prMode,    \* program: config.mode
    prPc,      \* program: where Program::run is
    prDb,      \* program: the database, none, loaded or failed
    prWatcher, \* program: the watcher, none, alive with its changes seen, failed or dropped
    prFront,   \* program: the front-end, none, or its name, requests served and state
    prRet,     \* program: what run returned, None while it runs
    prLog      \* program: the calls of run and their outcomes, in order

locVars == <<hs, probe, found, cmp>>
dlVars == <<pairs, dl, dlProbe, dlGot, dlCmp>>
orVars == <<errA, errB, orOut>>
dispVars == <<dErr, shown>>
parVars == <<pIn, pc, pPos, pCur, pAcc, pOut>>
regVars == <<node, nodeOp>>
ownVars == <<own, ownB, ownOut, ownCmp>>
rtVars == <<rtSrc, rtNode, rtText, rtAgain>>
foldVars == <<fAlts, fAcc, fIdx>>
progVars == <<prMode, prPc, prDb, prWatcher, prFront, prRet, prLog>>

\* what the actions of one component leave alone
locOthers == <<dlVars, orVars, dispVars, parVars, regVars, ownVars, rtVars, foldVars, progVars>>
dlOthers == <<locVars, orVars, dispVars, parVars, regVars, ownVars, rtVars, foldVars, progVars>>
orOthers == <<locVars, dlVars, dispVars, parVars, regVars, ownVars, rtVars, foldVars, progVars>>
dispOthers == <<locVars, dlVars, orVars, parVars, regVars, ownVars, rtVars, foldVars, progVars>>
parOthers == <<locVars, dlVars, orVars, dispVars, regVars, ownVars, rtVars, foldVars, progVars>>
regOthers == <<locVars, dlVars, orVars, dispVars, parVars, ownVars, rtVars, foldVars, progVars>>
ownOthers == <<locVars, dlVars, orVars, dispVars, parVars, regVars, rtVars, foldVars, progVars>>
rtOthers == <<locVars, dlVars, orVars, dispVars, parVars, regVars, ownVars, foldVars, progVars>>
foldOthers == <<locVars, dlVars, orVars, dispVars, parVars, regVars, ownVars, rtVars, progVars>>
progOthers == <<locVars, dlVars, orVars, dispVars, parVars, regVars, ownVars, rtVars, foldVars>>

vars == <<hs, probe, found, cmp, pairs, dl, dlProbe, dlGot, dlCmp,
          errA, errB, orOut, dErr, shown,
          pIn, pc, pPos, pCur, pAcc, pOut, node, nodeOp,
          own, ownB, ownOut, ownCmp, rtSrc, rtNode, rtText, rtAgain,
          fAlts, fAcc, fIdx,
          prMode, prPc, prDb, prWatcher, prFront, prRet, prLog>>

\* Option<T>
None == [some |-> FALSE]
Some(x) == [some |-> TRUE, val |-> x]

RECURSIVE SumSeq(_)
SumSeq(s) == IF s = <<>> THEN 0 ELSE Head(s) + SumSeq(Tail(s))

RECURSIVE Flatten(_)
Flatten(ss) == IF ss = <<>> THEN <<>> ELSE Head(ss) \o Flatten(Tail(ss))

(***************************************************************************)
(* Located<T>                                                              *)
(***************************************************************************)

MaxElem == 2
NumBuckets == 2
MaxSet == 2

Position(l, c) == [line |-> l, column |-> c]
Region(sl, sc, el, ec) == [start |-> Position(sl, sc), end |-> Position(el, ec)]
DefaultRegion == Region(0, 0, 0, 0)

LazyOwned(r) == [kind |-> "Owned", region |-> r]
DefaultLazyRegion == LazyOwned(DefaultRegion)

LocatedNew(inner, lazy_region) == [element |-> inner, lazy_region |-> lazy_region]
LocatedFrom(t) == LocatedNew(t, DefaultLazyRegion)

\* the elements T and the regions the model draws located values from
Elems == 0..MaxElem
RegionPool == {DefaultRegion, Region(1, 2, 3, 4), Region(2, 1, 2, 5)}
LocatedPool == {LocatedNew(e, LazyOwned(r)) : e \in Elems, r \in RegionPool}

\* <i32 as Hash>::hash into a table of NumBuckets buckets
HashElem(e) == e % NumBuckets

LocatedEq_WithRegion(a, b) == a.element = b.element /\ a.lazy_region = b.lazy_region
\* impl PartialEq for Located
LocatedEq(a, b) == a.element = b.element

\* impl PartialEq<T> for Located
LocatedEqInner(a, t) == a.element = t

\* impl Hash for Located
LocatedHash(a) == HashElem(a.element)

\* HashSet::get: the stored entry in the probe's bucket that equals the probe
HashSetGet(set, p) ==
    LET hit == {s \in set : LocatedHash(s) = LocatedHash(p) /\ LocatedEq(s, p)}
    IN  IF hit = {} THEN None ELSE Some(CHOOSE s \in hit : TRUE)

\* HashSet::insert: an entry equal to a stored one is not stored
HashSetInsert(set, v) ==
    IF HashSetGet(set, v).some THEN set ELSE set \cup {v}

\* the comparisons of a probe p with the stored entries of set: what
\* PartialEq, PartialEq<T> and Hash answer for each pair
Comparisons(set, p) ==
    {[a |-> s, b |-> p,
      eq |-> LocatedEq(s, p),
      eqInner |-> LocatedEqInner(s, p.element),
      ha |-> LocatedHash(s), hb |-> LocatedHash(p)] : s \in set}

LocInit ==
    /\ hs = {}
    /\ probe = None
    /\ found = None
    /\ cmp = {}

\* m.insert(le)
HsInsert ==
    \E v \in LocatedPool :
        /\ Cardinality(hs) < MaxSet
        /\ hs' = HashSetInsert(hs, v)
        /\ probe' = None
        /\ found' = None
        /\ cmp' = {}
        /\ UNCHANGED locOthers

\* m.get(&le), together with le == stored and hash(le), hash(stored)
HsGet ==
    \E p \in LocatedPool :
        /\ probe' = Some(p)
        /\ found' = HashSetGet(hs, p)
        /\ cmp' = Comparisons(hs, p)
        /\ UNCHANGED hs
        /\ UNCHANGED locOthers

(***************************************************************************)
(* Inline elements and their rendered text (Display)                       *)
(***************************************************************************)

Alphabet == <<"t", "e", "r", "m", "x", "y">>
CharCode(c) == CHOOSE i \in 1..Len(Alphabet) : Alphabet[i] = c

\* <str as Hash>::hash into a table of NumBuckets buckets
HashStr(s) == SumSeq([i \in 1..Len(s) |-> CharCode(s[i]) * i]) % NumBuckets

Text(s) == [type |-> "Text", text |-> s]
\* Text(Cow::Borrowed(s)) / Text(Cow::Owned(s)): cow says which
TextCow(s, cow) == [type |-> "Text", text |-> s, cow |-> cow]
\* DecoratedTextContent::Keyword(k) and #[display(fmt = ..)] on Keyword
Keyword(k) == [type |-> "Keyword", keyword |-> k]
KeywordToString(k) ==
    IF k = "Todo" THEN <<"T", "O", "D", "O">> ELSE <<"D", "O", "N", "E">>
DecoratedText(d, contents) == [type |-> "DecoratedText", decoration |-> d, contents |-> contents]

\* #[derive(Display)] on Text, DecoratedTextContent and Located: the inner
\* value's Display; impl Display for DecoratedText: its contents' to_string
\* one after the other, without the decoration's markers
RECURSIVE ElementToString(_)
ElementToString(e) ==
    IF e.type = "Text" THEN e.text
    ELSE IF e.type = "Keyword" THEN KeywordToString(e.keyword)
    ELSE Flatten([i \in 1..Len(e.contents) |-> ElementToString(e.contents[i].element)])

\* InlineElementContainer: Vec<Located<InlineElement>>; its Display writes
\* every element's to_string one after the other
ContainerToString(c) == Flatten([i \in 1..Len(c) |-> ElementToString(c[i].element)])

(***************************************************************************)
(* DefinitionListValue (Term, Definition)                                  *)
(***************************************************************************)

DLVNew(container) == [container |-> container]
\* #[display(fmt = "{}", _0)]
DLVToString(v) == ContainerToString(v.container)
\* impl From<&str> for DefinitionListValue
DLVFromStr(s) == DLVNew(<<LocatedFrom(Text(s))>>)

DLVHash_Structural(v) == (HashStr(DLVToString(v)) + Len(v.container)) % NumBuckets
\* impl Hash for DefinitionListValue
DLVHash(v) == HashStr(DLVToString(v))

DLVEq_Structural(a, b) == a = b
\* impl PartialEq for DefinitionListValue
DLVEq(a, b) == DLVToString(a) = DLVToString(b)
\* impl PartialEq<InlineElementContainer> for DefinitionListValue
DLVEqContainer(a, c) == DLVToString(a) = ContainerToString(c)
\* impl PartialEq<String> for DefinitionListValue
DLVEqString(a, str) == DLVToString(a) = str
\* impl PartialEq<&str> for DefinitionListValue
DLVEqStr(a, str) == DLVToString(a) = str

LocatedTermEq_WithRegion(a, b) == DLVEq(a.element, b.element) /\ a.lazy_region = b.lazy_region
\* impl PartialEq / Hash for Located, at T = Term
LocatedTermEq(a, b) == DLVEq(a.element, b.element)
LocatedTermHash(a) == DLVHash(a.element)

\* Vec<Located<Definition>> == Vec<Located<Definition>>
DefsEq(v, w) == Len(v) = Len(w) /\ \A i \in 1..Len(v) : LocatedTermEq(v[i], w[i])
\* Option<&Vec<Located<Definition>>> == Option<&Vec<Located<Definition>>>
OptDefsEq(x, y) == x.some = y.some /\ (x.some => DefsEq(x.val, y.val))

(***************************************************************************)
(* DefinitionList: HashMap<Located<Term>, Vec<Located<Definition>>>        *)
(***************************************************************************)

MaxPairs == 3

\* HashMap::get_key_value: the entries in the key's bucket whose key equals it
HashMapHits(m, k) ==
    {e \in m : LocatedTermHash(e.key) = LocatedTermHash(k) /\ LocatedTermEq(e.key, k)}

\* HashMap::get
HashMapGet(m, k) ==
    LET hit == HashMapHits(m, k)
    IN  IF hit = {} THEN None ELSE Some((CHOOSE e \in hit : TRUE).value)

HashMapInsert_KeepFirst(m, k, v) ==
    IF HashMapHits(m, k) = {} THEN m \cup {[key |-> k, value |-> v]} ELSE m
HashMapInsert_Extend(m, k, v) ==
    LET hit == HashMapHits(m, k)
    IN  IF hit = {} THEN m \cup {[key |-> k, value |-> v]}
        ELSE LET e == CHOOSE x \in hit : TRUE
             IN  (m \ {e}) \cup {[key |-> e.key, value |-> e.value \o v]}
\* HashMap::insert: a new entry, or the new value under the key already stored
HashMapInsert(m, k, v) ==
    LET hit == HashMapHits(m, k)
    IN  IF hit = {} THEN m \cup {[key |-> k, value |-> v]}
        ELSE LET e == CHOOSE x \in hit : TRUE
             IN  (m \ {e}) \cup {[key |-> e.key, value |-> v]}

\* impl From<Vec<(Located<Term>, Vec<Located<Definition>>)>> for DefinitionList
RECURSIVE DLFromLoop(_, _)
DLFromLoop(m, rest) ==
    IF rest = <<>> THEN m
    ELSE DLFromLoop(HashMapInsert(m, Head(rest).term, Head(rest).definitions), Tail(rest))

DLFrom(terms_and_definitions) == [mapping |-> DLFromLoop({}, terms_and_definitions)]

DLGet_EmptyWhenAbsent(list, term) ==
    LET r == HashMapGet(list.mapping, LocatedFrom(term))
    IN  IF r.some THEN r ELSE Some(<<>>)
\* DefinitionList::get
DLGet(list, term) == HashMapGet(list.mapping, LocatedFrom(term))

\* #[derive(PartialEq)] on DefinitionList: HashMap == HashMap
DLEq(a, b) ==
    /\ Cardinality(a.mapping) = Cardinality(b.mapping)
    /\ \A e \in a.mapping : OptDefsEq(Some(e.value), HashMapGet(b.mapping, e.key))

\* the terms and definitions the model draws from
TermOne == DLVFromStr(<<"t", "e", "r", "m">>)
TermFour == DLVNew(<<LocatedFrom(Text(<<"t">>)), LocatedFrom(Text(<<"e">>)),
                     LocatedFrom(Text(<<"r">>)), LocatedFrom(Text(<<"m">>))>>)
TermTe == DLVFromStr(<<"t", "e">>)
TermBoldTe == DLVNew(<<LocatedFrom(DecoratedText("Bold", <<LocatedFrom(Text(<<"t">>))>>)),
                       LocatedFrom(Text(<<"e">>))>>)
TermMe == DLVFromStr(<<"m", "e">>)
DefX == DLVFromStr(<<"x">>)
DefY == DLVFromStr(<<"y">>)
DefXSplit == DLVNew(<<LocatedFrom(Text(<<>>)), LocatedFrom(Text(<<"x">>))>>)

LocatedTermPool ==
    {LocatedFrom(TermOne), LocatedNew(TermFour, LazyOwned(Region(1, 2, 3, 4))),
     LocatedNew(TermBoldTe, LazyOwned(Region(2, 1, 2, 5)))}
DefsPool ==
    {<<>>,
     <<LocatedNew(DefY, LazyOwned(Region(1, 2, 3, 4))), LocatedFrom(DefX)>>,
     <<LocatedFrom(DefY), LocatedNew(DefXSplit, LazyOwned(Region(2, 1, 2, 5)))>>}
PairPool == {[term |-> t, definitions |-> d] : t \in LocatedTermPool, d \in DefsPool}
ProbePool == {TermOne, TermFour, TermTe, TermMe}

SeqsUpTo(S, n) == UNION {[1..k -> S] : k \in 0..n}

NotBuilt == [built |-> FALSE]

DLIdle ==
    /\ pairs = <<>>
    /\ dl = NotBuilt
    /\ dlProbe = None
    /\ dlGot = None
    /\ dlCmp = {}

DLInit ==
    /\ pairs \in SeqsUpTo(PairPool, MaxPairs)
    /\ dl = NotBuilt
    /\ dlProbe = None
    /\ dlGot = None
    /\ dlCmp = {}

\* DefinitionList::from(pairs)
BuildFrom ==
    /\ dl = NotBuilt
    /\ dl' = [built |-> TRUE, list |-> DLFrom(pairs)]
    /\ UNCHANGED <<pairs, dlProbe, dlGot, dlCmp>>
    /\ UNCHANGED dlOthers

\* what ==, hash answer for a probe term and each key of the list
TermComparisons(list, term) ==
    {[a |-> e.key.element, b |-> term,
      eq |-> DLVEq(e.key.element, term),
      eqContainer |-> DLVEqContainer(e.key.element, term.container),
      eqString |-> DLVEqString(e.key.element, DLVToString(term)),
      eqStr |-> DLVEqStr(e.key.element, DLVToString(term)),
      ha |-> DLVHash(e.key.element), hb |-> DLVHash(term)] : e \in list.mapping}

\* dl.get(term)
GetTerm ==
    \E t \in ProbePool :
        /\ dl # NotBuilt
        /\ dlProbe' = Some(t)
        /\ dlGot' = DLGet(dl.list, t)
        /\ dlCmp' = TermComparisons(dl.list, t)
        /\ UNCHANGED <<pairs, dl>>
        /\ UNCHANGED dlOthers

(***************************************************************************)
(* Span: a view of an input buffer from a byte offset on                   *)
(***************************************************************************)

\* Span { buf, offset }: the input and the number of bytes consumed
SpanAt(buf, offset) == [buf |-> buf, offset |-> offset]
\* Span::from(s): the start of s
SpanFrom(buf) == SpanAt(buf, 0)

start_offset(span) == span.offset
remaining_len(span) == Len(span.buf) - span.offset
\* the text from the cursor to the end of the input
as_unsafe_remaining_str(span) == SubSeq(span.buf, span.offset + 1, Len(span.buf))
\* 1 + the line endings consumed
line(span) == 1 + Cardinality({i \in 1..span.offset : span.buf[i] = "\n"})
\* 1 + the bytes consumed since the last line ending
column(span) ==
    LET nl == {i \in 1..span.offset : span.buf[i] = "\n"}
        last == IF nl = {} THEN 0 ELSE CHOOSE i \in nl : \A j \in nl : j <= i
    IN  span.offset - last + 1

(***************************************************************************)
(* LangParserError { ctx, input, next }                                    *)
(***************************************************************************)

PreviewLen == 100
Slack == 2
MaxRepeat == 2
MaxChain == 3

\* ErrorKind::description
KindDescription(kind) ==
    CASE kind = "Not" -> "Negation"
      [] kind = "Eof" -> "End of file"
      [] OTHER -> kind

\* LangParserError::unsupported
unsupported == [ctx |-> "Unsupported", input |-> SpanFrom(<<>>), next |-> None]
\* LangParserError::from_ctx
from_ctx(input, ctx) == [ctx |-> ctx, input |-> input, next |-> None]
\* ParseError::from_error_kind
from_error_kind(input, kind) == [ctx |-> KindDescription(kind), input |-> input, next |-> None]
\* ParseError::append
append(input, kind, other) == [from_error_kind(input, kind) EXCEPT !.next = Some(other)]
\* ParseError::from_char
from_char(input, c) == [ctx |-> "Char " \o c, input |-> input, next |-> None]
add_context_NoCause(input, ctx, other) == [ctx |-> ctx, input |-> input, next |-> None]
\* ParseError::add_context
add_context(input, ctx, other) == [ctx |-> ctx, input |-> input, next |-> Some(other)]

or_TieFirst(self, other) ==
    IF start_offset(self.input) >= start_offset(other.input) THEN self ELSE other
or_Default(self, other) == other
\* ParseError::or
or(self, other) ==
    IF start_offset(self.input) > start_offset(other.input) THEN self ELSE other

\* one line of output: "{ctx}: Line {line}, Column {column}"
HeadLine(e) == [kind |-> "head", ctx |-> e.ctx, line |-> line(e.input), column |-> column(e.input)]
\* one line of output: "Input: {preview}"
InputLine(preview) == [kind |-> "input", preview |-> preview]

\* str[..n]: the first n bytes, a panic when the str is shorter
SliceTo(str, n) == IF n <= Len(str) THEN Some(SubSeq(str, 1, n)) ELSE None

\* impl Display for LangParserError: what was written, and whether fmt
\* returned Ok(()) or panicked
RECURSIVE fmt(_)
fmt(e) ==
    LET preview == SliceTo(as_unsafe_remaining_str(e.input), PreviewLen)
    IN  IF ~preview.some
        THEN [ok |-> FALSE, panicked |-> TRUE, out |-> <<HeadLine(e)>>]
        ELSE LET here == <<HeadLine(e), InputLine(preview.val)>>
             IN  IF e.next.some
                 THEN LET rest == fmt(e.next.val)
                      IN  [rest EXCEPT !.out = here \o rest.out]
                 ELSE [ok |-> TRUE, panicked |-> FALSE, out |-> here]

RECURSIVE ChainLen(_)
ChainLen(e) == IF e.next.some THEN 1 + ChainLen(e.next.val) ELSE 1

\* the inputs the model draws failure cursors from: a short one, and one
\* with more than PreviewLen bytes
ShortBuf == <<"a", "\n", "b">>
LongBuf == [i \in 1..(PreviewLen + Slack) |-> IF i % 10 = 0 THEN "\n" ELSE "a"]
ShortSpans == {SpanAt(ShortBuf, o) : o \in 0..Len(ShortBuf)}
LongSpans == {SpanAt(LongBuf, o) : o \in {0, Slack, Slack + 1, Len(LongBuf)}}

LeafErrors(spans) ==
    {unsupported} \cup {from_ctx(i, "Paragraph") : i \in spans}
                  \cup {from_char(i, "a") : i \in spans}
                  \cup {from_error_kind(i, "Tag") : i \in spans}
OrPool ==
    LET spans == ShortSpans \cup {SpanFrom(LongBuf), SpanFrom(<<>>)}
        leaves == LeafErrors(spans)
    IN  leaves \cup {add_context(i, "Link", e) : i \in ShortSpans, e \in leaves}

OrIdle ==
    /\ errA = unsupported
    /\ errB = unsupported
    /\ orOut = <<>>

OrInit ==
    /\ errA \in OrPool
    /\ errB \in OrPool
    /\ orOut = <<>>

\* errA.or(errB), once more
CallOr ==
    /\ Len(orOut) < MaxRepeat
    /\ orOut' = Append(orOut, or(errA, errB))
    /\ UNCHANGED <<errA, errB>>
    /\ UNCHANGED orOthers

MaxAlt == 3

\* the errors of the alternatives: leaves at every cursor of one input, the
\* sentinel, and errors with a cause
FoldPool ==
    {unsupported} \cup {from_ctx(i, "Paragraph") : i \in ShortSpans}
                  \cup {from_char(i, "a") : i \in ShortSpans}
                  \cup {add_context(i, "Link", from_ctx(SpanAt(ShortBuf, 1), "Paragraph")) :
                           i \in ShortSpans}

FoldIdle ==
    /\ fAlts = <<unsupported>>
    /\ fAcc = None
    /\ fIdx = 0

FoldInit ==
    /\ fAlts \in SeqsUpTo(FoldPool, MaxAlt) \ {<<>>}
    /\ fAcc = None
    /\ fIdx = 0

\* the first alternative failed: its error is the one kept
FoldFirst ==
    /\ fIdx = 0
    /\ fAcc' = Some(fAlts[1])
    /\ fIdx' = 1
    /\ UNCHANGED fAlts
    /\ UNCHANGED foldOthers

\* the next alternative failed: kept.or(its error)
FoldOr ==
    /\ fIdx >= 1 /\ fIdx < Len(fAlts)
    /\ fAcc' = Some(or(fAcc.val, fAlts[fIdx + 1]))
    /\ fIdx' = fIdx + 1
    /\ UNCHANGED fAlts
    /\ UNCHANGED foldOthers

NotShown == [shown |-> FALSE]
WrapSpans == {SpanFrom(LongBuf), SpanAt(LongBuf, Slack + 1), SpanAt(ShortBuf, 1)}

DispIdle ==
    /\ dErr = unsupported
    /\ shown = NotShown

DispInit ==
    /\ dErr \in LeafErrors(ShortSpans \cup LongSpans \cup {SpanFrom(<<>>)})
    /\ shown = NotShown

\* context(ctx, parser) failed: LangParserError::add_context(input, ctx, dErr)
WrapContext ==
    \E i \in WrapSpans :
        /\ shown = NotShown
        /\ ChainLen(dErr) < MaxChain
        /\ dErr' = add_context(i, "Paragraph", dErr)
        /\ UNCHANGED shown
        /\ UNCHANGED dispOthers

\* LangParserError::append(input, kind, dErr)
WrapAppend ==
    \E i \in WrapSpans :
        /\ shown = NotShown
        /\ ChainLen(dErr) < MaxChain
        /\ dErr' = append(i, "Many1", dErr)
        /\ UNCHANGED shown
        /\ UNCHANGED dispOthers

\* dErr.to_string()
Display ==
    /\ shown = NotShown
    /\ shown' = [shown |-> TRUE, result |-> fmt(dErr)]
    /\ UNCHANGED dErr
    /\ UNCHANGED dispOthers

(***************************************************************************)
(* The paragraph production                                                *)
(***************************************************************************)

MaxInput == 4

\* IResult: Ok((rest, out)) or Err(Err::Error(e))
Ok(rest, out) == [ok |-> TRUE, rest |-> rest, out |-> out]
Err(e) == [ok |-> FALSE, err |-> e]

Advance(span, n) == SpanAt(span.buf, span.offset + n)
IsSpace(c) == c = " " \/ c = "\t"

\* the number of leading characters of str that satisfy the test
RECURSIVE CountSpaces(_)
CountSpaces(str) ==
    IF str # <<>> /\ IsSpace(Head(str)) THEN 1 + CountSpaces(Tail(str)) ELSE 0
RECURSIVE CountToLineEnd(_)
CountToLineEnd(str) ==
    IF str # <<>> /\ Head(str) # "\n" THEN 1 + CountToLineEnd(Tail(str)) ELSE 0

\* nom_locate position: the cursor, nothing consumed
position(input) == Ok(input, input)

\* utils::beginning_of_line: succeeds, consuming nothing, at column 1
beginning_of_line(input) ==
    IF column(input) = 1 THEN Ok(input, <<>>)
    ELSE Err(from_ctx(input, "Not at beginning of line"))

\* nom space0 / space1: zero or more / one or more spaces and tabs
space0(input) ==
    LET n == CountSpaces(as_unsafe_remaining_str(input))
    IN  Ok(Advance(input, n), SubSeq(input.buf, input.offset + 1, input.offset + n))
space1(input) ==
    LET n == CountSpaces(as_unsafe_remaining_str(input))
    IN  IF n = 0 THEN Err(from_error_kind(input, "Space"))
        ELSE Ok(Advance(input, n), SubSeq(input.buf, input.offset + 1, input.offset + n))

not_ErrAtRest(input, result) ==
    IF result.ok THEN Err(from_error_kind(result.rest, "Not")) ELSE Ok(input, <<>>)
\* nom not(parser), given the parser's result on input: succeeds, consuming
\* nothing, when the parser failed
not(input, result) ==
    IF result.ok THEN Err(from_error_kind(input, "Not")) ELSE Ok(input, <<>>)

\* utils::end_of_line_or_input: a line ending, or nothing at the end of input
end_of_line_or_input(input) ==
    IF remaining_len(input) = 0 THEN Ok(input, <<>>)
    ELSE IF input.buf[input.offset + 1] = "\n" THEN Ok(Advance(input, 1), <<>>)
    ELSE Err(add_context(input, "EOL/EOI", from_error_kind(input, "CrLf")))

\* utils::blank_line: at the beginning of a line, spaces and tabs only up
\* to the end of the line or input
blank_line(input) ==
    LET b == beginning_of_line(input)
    IN  IF ~b.ok THEN Err(add_context(input, "Blank Line", b.err))
        ELSE LET sp == space0(b.rest)
                 e == end_of_line_or_input(sp.rest)
             IN  IF e.ok THEN Ok(e.rest, sp.out)
                 ELSE Err(add_context(input, "Blank Line", e.err))

\* inline_component_container: the inline elements of the rest of the line,
\* at least one; plain text is one Text
inline_component_container(input) ==
    LET n == CountToLineEnd(as_unsafe_remaining_str(input))
    IN  IF n = 0 THEN Err(add_context(input, "Inline Component Container",
                                      from_error_kind(input, "Many1")))
        ELSE Ok(Advance(input, n),
                <<Text(SubSeq(input.buf, input.offset + 1, input.offset + n))>>)

ParagraphLine_NoBlankCheck(input) ==
    LET c == inline_component_container(input)
    IN  IF ~c.ok THEN c
        ELSE LET e == end_of_line_or_input(c.rest)
             IN  IF ~e.ok THEN e ELSE Ok(e.rest, c.out)
ParagraphLine_Unindented(input) ==
    LET n == not(input, blank_line(input))
        g == not(input, space1(input))
    IN  IF ~n.ok THEN n
        ELSE IF ~g.ok THEN g
        ELSE LET c == inline_component_container(n.rest)
             IN  IF ~c.ok THEN c
                 ELSE LET e == end_of_line_or_input(c.rest)
                      IN  IF ~e.ok THEN e ELSE Ok(e.rest, c.out)
\* delimited(not(blank_line), map(inline_component_container, ..), end_of_line_or_input)
ParagraphLine(input) ==
    LET n == not(input, blank_line(input))
    IN  IF ~n.ok THEN n
        ELSE LET c == inline_component_container(n.rest)
             IN  IF ~c.ok THEN c
                 ELSE LET e == end_of_line_or_input(c.rest)
                      IN  IF ~e.ok THEN e ELSE Ok(e.rest, c.out)

ParagraphIndentGuard_Absent(input) == Ok(input, <<>>)
\* "Paragraph has NO indentation": not(space1)(input)
ParagraphIndentGuard(input) == not(input, space1(input))

ParagraphNew_FirstLineOnly(components) == [content |-> Head(components)]
\* Paragraph::new(From::from(components))
ParagraphNew(components) == [content |-> Flatten(components)]

InputChars == {"a", " ", "\t", "\n"}
NotRun == [run |-> FALSE]
Returned(result) == [run |-> TRUE, result |-> result]

ParIdle ==
    /\ pIn = SpanFrom(<<>>)
    /\ pc = "start"
    /\ pPos = SpanFrom(<<>>)
    /\ pCur = SpanFrom(<<>>)
    /\ pAcc = <<>>
    /\ pOut = NotRun

ParInit ==
    /\ \E buf \in SeqsUpTo(InputChars, MaxInput) :
          \E o \in 0..Len(buf) : pIn = SpanAt(buf, o)
    /\ pc = "start"
    /\ pPos = pIn
    /\ pCur = pIn
    /\ pAcc = <<>>
    /\ pOut = NotRun

\* paragraph, up to many1: position, beginning_of_line, not(space1); each
\* `?` returns the error
ParagraphStart ==
    /\ pc = "start"
    /\ LET p == position(pIn)
           b == beginning_of_line(p.rest)
           g == ParagraphIndentGuard(pIn)
       IN  IF ~b.ok THEN pOut' = Returned(b) /\ pc' = "done" /\ UNCHANGED <<pPos, pCur>>
           ELSE IF ~g.ok THEN pOut' = Returned(g) /\ pc' = "done" /\ UNCHANGED <<pPos, pCur>>
           ELSE pOut' = pOut /\ pc' = "first" /\ pPos' = p.out /\ pCur' = g.rest
    /\ UNCHANGED <<pIn, pAcc>>
    /\ UNCHANGED parOthers

ParagraphFirstLine_Many0 ==
    /\ pc = "first"
    /\ LET r == ParagraphLine(pCur)
       IN  IF ~r.ok
           THEN pc' = "finish" /\ UNCHANGED <<pCur, pAcc, pOut>>
           ELSE /\ pAcc' = <<r.out>>
                /\ pCur' = r.rest
                /\ pc' = "more"
                /\ pOut' = pOut
    /\ UNCHANGED <<pIn, pPos>>
    /\ UNCHANGED parOthers

\* many1, first element: its failure is the failure of many1, which
\* context("Paragraph", ..) wraps and `?` returns
ParagraphFirstLine ==
    /\ pc = "first"
    /\ LET r == ParagraphLine(pCur)
       IN  IF ~r.ok
           THEN /\ pOut' = Returned(Err(add_context(pCur, "Paragraph", append(pCur, "Many1", r.err))))
                /\ pc' = "done"
                /\ UNCHANGED <<pCur, pAcc>>
           ELSE /\ pAcc' = <<r.out>>
                /\ pCur' = r.rest
                /\ pc' = "more"
                /\ pOut' = pOut
    /\ UNCHANGED <<pIn, pPos>>
    /\ UNCHANGED parOthers

ParagraphNextLine_Stop ==
    /\ pc = "more"
    /\ pc' = "finish"
    /\ UNCHANGED <<pIn, pPos, pCur, pAcc, pOut>>
    /\ UNCHANGED parOthers

\* many1, a further element: its failure ends many1 with what was
\* collected; an element that consumed nothing is an error
ParagraphNextLine ==
    /\ pc = "more"
    /\ LET r == ParagraphLine(pCur)
       IN  IF ~r.ok
           THEN pc' = "finish" /\ UNCHANGED <<pCur, pAcc, pOut>>
           ELSE IF r.rest = pCur
           THEN /\ pOut' = Returned(Err(add_context(pPos, "Paragraph", from_error_kind(pCur, "Many1"))))
                /\ pc' = "done"
                /\ UNCHANGED <<pCur, pAcc>>
           ELSE /\ pAcc' = Append(pAcc, r.out)
                /\ pCur' = r.rest
                /\ pc' = "more"
                /\ pOut' = pOut
    /\ UNCHANGED <<pIn, pPos>>
    /\ UNCHANGED parOthers

\* Ok((input, LC::from((paragraph, pos, input))))
ParagraphFinish ==
    /\ pc = "finish"
    /\ pOut' = Returned(Ok(pCur, [component |-> ParagraphNew(pAcc), pos |-> pPos, end |-> pCur]))
    /\ pc' = "done"
    /\ UNCHANGED <<pIn, pPos, pCur, pAcc>>
    /\ UNCHANGED parOthers

(***************************************************************************)
(* LazyRegion, Region and the region operations of Located                 *)
(***************************************************************************)

MaxSpanLen == 3
MaxLine == 2

\* LazyRegion::Borrowed(span)
LazyBorrowed(span) == [kind |-> "Borrowed", span |-> span]

\* Span::starting_at(n): the span from n bytes after its start
starting_at(span, n) == Advance(span, n)

RegionFromSpan_OnePastEnd(span) ==
    LET end == starting_at(span, remaining_len(span))
    IN  [start |-> Position(line(span), column(span)),
         end |-> Position(line(end), column(end))]
\* impl From<Span> for Region
RegionFromSpan(span) ==
    LET start_pos == Position(line(span), column(span))
        last == IF remaining_len(span) > 0
                THEN starting_at(span, remaining_len(span) - 1)
                ELSE span
        end_pos == Position(line(last), column(last))
    IN  [start |-> start_pos, end |-> end_pos]

\* impl From<LazyRegion> for Region
RegionFromLazyRegion(lazy_region) ==
    IF lazy_region.kind = "Borrowed" THEN RegionFromSpan(lazy_region.span)
    ELSE lazy_region.region

LazyRegionIntoOwned_Default(lazy_region) == DefaultLazyRegion
\* LazyRegion::into_owned
LazyRegionIntoOwned(lazy_region) == LazyOwned(RegionFromLazyRegion(lazy_region))

\* tokenize_lazy_region: the LazyRegion the emitted tokens construct
tokenize_lazy_region(lazy_region) == LazyOwned(RegionFromLazyRegion(lazy_region))

\* the function the model maps elements with
MapFn(e) == (e + 1) % (MaxElem + 1)
\* Located::map, with f = MapFn
LocatedMap(self) == LocatedNew(MapFn(self.element), self.lazy_region)

\* Located::take_with_region
take_with_region(self, lazy_region) == LocatedNew(self.element, lazy_region)

take_at_line_StartOnly(self, l) ==
    LET region == RegionFromLazyRegion(self.lazy_region)
    IN  [self EXCEPT !.lazy_region =
            LazyOwned([region EXCEPT !.start.line = l])]
take_at_line_SingleLine(self, l) ==
    LET region == RegionFromLazyRegion(self.lazy_region)
    IN  [self EXCEPT !.lazy_region =
            LazyOwned([region EXCEPT !.start.line = l, !.end.line = l])]
\* Located::take_at_line
take_at_line(self, l) ==
    LET region == RegionFromLazyRegion(self.lazy_region)
        diff == region.end.line - region.start.line
    IN  [self EXCEPT !.lazy_region =
            LazyOwned([region EXCEPT !.start.line = l, !.end.line = l + diff])]

\* Located::as_ref: the element by reference, the lazy region copied
as_ref(self) == [element |-> self.element, lazy_region |-> self.lazy_region]

\* the spans of the inputs the nodes are built on, and the line arguments
SpanChars == {"a", "\n"}
SpanPool == UNION {{SpanAt(b, o) : o \in 0..Len(b)} : b \in SeqsUpTo(SpanChars, MaxSpanLen)}
LinePool == 0..MaxLine

RegIdle ==
    /\ node = LocatedFrom(0)
    /\ nodeOp = [op |-> "new"]

\* Located::new(element, span)
RegInit ==
    /\ \E e \in Elems, span \in SpanPool : node = LocatedNew(e, LazyBorrowed(span))
    /\ nodeOp = [op |-> "new"]

\* node.map(f)
Map ==
    /\ node' = LocatedMap(node)
    /\ nodeOp' = [op |-> "map", before |-> node]
    /\ UNCHANGED regOthers

\* node.as_ref()
AsRef ==
    /\ node' = as_ref(node)
    /\ nodeOp' = [op |-> "as_ref", before |-> node]
    /\ UNCHANGED regOthers

\* the node with its region materialized: lazy_region().into_owned()
IntoOwned ==
    /\ node' = take_with_region(node, LazyRegionIntoOwned(node.lazy_region))
    /\ nodeOp' = [op |-> "into_owned", before |-> node]
    /\ UNCHANGED regOthers

\* node.take_at_line(line)
TakeAtLine ==
    \E l \in LinePool :
        /\ node' = take_at_line(node, l)
        /\ nodeOp' = [op |-> "take_at_line", before |-> node, line |-> l]
        /\ UNCHANGED regOthers

(***************************************************************************)
(* Borrowed and owned forms of the elements; StrictEq                      *)
(***************************************************************************)

MaxChildren == 2

TextAsBorrowed_Truncated(t) == [t EXCEPT !.text = <<>>, !.cow = "Borrowed"]
\* Text::as_borrowed: the same str behind Cow::Borrowed
TextAsBorrowed(t) == [t EXCEPT !.cow = "Borrowed"]
\* Text::into_owned: the str copied into Cow::Owned
TextIntoOwned(t) == [t EXCEPT !.cow = "Owned"]

\* DecoratedTextContent::to_borrowed and DecoratedText::to_borrowed: the
\* variant kept, each content x replaced by x.as_ref().map(to_borrowed)
RECURSIVE DTCToBorrowed(_)
DTCToBorrowed(e) ==
    IF e.type = "Text" THEN TextAsBorrowed(e)
    ELSE IF e.type = "Keyword" THEN e
    ELSE [e EXCEPT !.contents =
            [i \in 1..Len(e.contents) |->
                LocatedNew(DTCToBorrowed(as_ref(e.contents[i]).element),
                           as_ref(e.contents[i]).lazy_region)]]

\* DecoratedTextContent::into_owned and DecoratedText::into_owned: the
\* variant kept, each content x replaced by x.map(into_owned)
RECURSIVE DTCIntoOwned(_)
DTCIntoOwned(e) ==
    IF e.type = "Text" THEN TextIntoOwned(e)
    ELSE IF e.type = "Keyword" THEN e
    ELSE [e EXCEPT !.contents =
            [i \in 1..Len(e.contents) |->
                LocatedNew(DTCIntoOwned(e.contents[i].element), e.contents[i].lazy_region)]]

\* InlineElementContainer::to_borrowed / into_owned: element by element
ContainerToBorrowed(c) ==
    [i \in 1..Len(c) |-> LocatedNew(DTCToBorrowed(c[i].element), c[i].lazy_region)]
ContainerIntoOwned(c) ==
    [i \in 1..Len(c) |-> LocatedNew(DTCIntoOwned(c[i].element), c[i].lazy_region)]

\* DefinitionListValue::to_borrowed / into_owned
DLVToBorrowed(v) == DLVNew(ContainerToBorrowed(v.container))
DLVIntoOwned(v) == DLVNew(ContainerIntoOwned(v.container))

\* Vec<Located<Definition>>: iter().map(|x| x.as_ref().map(to_borrowed)) and
\* into_iter().map(|x| x.map(into_owned))
DefsToBorrowed(defs) ==
    [i \in 1..Len(defs) |-> LocatedNew(DLVToBorrowed(defs[i].element), defs[i].lazy_region)]
DefsIntoOwned(defs) ==
    [i \in 1..Len(defs) |-> LocatedNew(DLVIntoOwned(defs[i].element), defs[i].lazy_region)]

\* DefinitionList::to_borrowed / into_owned: the entries, in the order the
\* HashMap iterates them, converted and collected into a new HashMap
DLToBorrowed(order) ==
    DLFrom([i \in 1..Len(order) |->
        [term |-> LocatedNew(DLVToBorrowed(order[i].key.element), order[i].key.lazy_region),
         definitions |-> DefsToBorrowed(order[i].value)]])
DLIntoOwned(order) ==
    DLFrom([i \in 1..Len(order) |->
        [term |-> LocatedNew(DLVIntoOwned(order[i].key.element), order[i].key.lazy_region),
         definitions |-> DefsIntoOwned(order[i].value)]])

\* Paragraph::to_borrowed / into_owned
ParagraphToBorrowed(p) == [content |-> ContainerToBorrowed(p.content)]
ParagraphIntoOwned(p) == [content |-> ContainerIntoOwned(p.content)]

\* Divider, and impl_located_borrowed_owned!(Divider, Divider, |_| Divider, |_| Divider)
Divider == [type |-> "Divider"]
DividerToBorrowed(d) == Divider
DividerIntoOwned(d) == Divider

\* #[derive(PartialEq)] on Text (the strs of the Cows), Keyword,
\* DecoratedTextContent and DecoratedText; Located == Located by element
RECURSIVE ElementEq(_, _)
ElementEq(a, b) ==
    /\ a.type = b.type
    /\ a.type = "Text" => a.text = b.text
    /\ a.type = "Keyword" => a.keyword = b.keyword
    /\ a.type = "DecoratedText" =>
          /\ a.decoration = b.decoration
          /\ Len(a.contents) = Len(b.contents)
          /\ \A i \in 1..Len(a.contents) :
                ElementEq(a.contents[i].element, b.contents[i].element)

\* InlineElementContainer == InlineElementContainer
ContainerEq(c, d) ==
    Len(c) = Len(d) /\ \A i \in 1..Len(c) : ElementEq(c[i].element, d[i].element)
\* #[derive(PartialEq)] on Paragraph
ParagraphEq(p, q) == ContainerEq(p.content, q.content)

\* StrictEq for Located: of the elements, and the same region
SameRegion(a, b) == RegionFromLazyRegion(a.lazy_region) = RegionFromLazyRegion(b.lazy_region)

\* impl StrictEq for Text: same as PartialEq
TextStrictEq(a, b) == a.text = b.text
\* impl StrictEq for Keyword: same as PartialEq
KeywordStrictEq(a, b) == a.keyword = b.keyword

ElementStrictEq_IgnoreVariant(a, b) == ElementToString(a) = ElementToString(b)
\* impl StrictEq for DecoratedTextContent and for DecoratedText: strict_eq on
\* matching variants, false otherwise; Vec strict_eq is pairwise
RECURSIVE ElementStrictEq(_, _)
ElementStrictEq(a, b) ==
    IF a.type # b.type THEN FALSE
    ELSE IF a.type = "Text" THEN TextStrictEq(a, b)
    ELSE IF a.type = "Keyword" THEN KeywordStrictEq(a, b)
    ELSE /\ a.decoration = b.decoration
         /\ Len(a.contents) = Len(b.contents)
         /\ \A i \in 1..Len(a.contents) :
               /\ ElementStrictEq(a.contents[i].element, b.contents[i].element)
               /\ SameRegion(a.contents[i], b.contents[i])

\* StrictEq for InlineElementContainer: pairwise on its elements
ContainerStrictEq(c, d) ==
    /\ Len(c) = Len(d)
    /\ \A i \in 1..Len(c) :
          ElementStrictEq(c[i].element, d[i].element) /\ SameRegion(c[i], d[i])

DLVStrictEq_Rendered(a, b) == DLVEq(a, b)
\* impl StrictEq for DefinitionListValue
DLVStrictEq(a, b) == ContainerStrictEq(a.container, b.container)

\* Located<DefinitionListValue> and Vec of them
LocatedDLVStrictEq(a, b) == DLVStrictEq(a.element, b.element) /\ SameRegion(a, b)
DefsStrictEq(v, w) ==
    Len(v) = Len(w) /\ \A i \in 1..Len(v) : LocatedDLVStrictEq(v[i], w[i])

\* impl StrictEq for DefinitionList
DLStrictEq(a, b) ==
    /\ Cardinality(a.mapping) = Cardinality(b.mapping)
    /\ \A e \in a.mapping :
          LET hit == HashMapHits(b.mapping, e.key)
          IN  /\ hit # {}
              /\ LET kv == CHOOSE x \in hit : TRUE
                 IN  LocatedDLVStrictEq(e.key, kv.key) /\ DefsStrictEq(e.value, kv.value)

\* StrictEq for Paragraph and Divider
ParagraphStrictEq(p, q) == ContainerStrictEq(p.content, q.content)
DividerStrictEq(a, b) == TRUE

\* an element of one of the kinds of the element model
Node(kind, value) == [kind |-> kind, value |-> value]

\* the orders in which a HashMap may iterate its entries
Orderings(S) ==
    {o \in [1..Cardinality(S) -> S] : \A i, j \in 1..Cardinality(S) : o[i] = o[j] => i = j}
Orders(n) == IF n.kind = "DefinitionList" THEN Orderings(n.value.mapping) ELSE {<<>>}

\* n.to_borrowed(), n.into_owned(), n.clone() at each kind; order is the
\* iteration order of the mapping of a DefinitionList
NodeToBorrowed(n, order) ==
    Node(n.kind,
         CASE n.kind = "Text" -> TextAsBorrowed(n.value)
           [] n.kind \in {"DecoratedTextContent", "DecoratedText"} -> DTCToBorrowed(n.value)
           [] n.kind = "Term" -> DLVToBorrowed(n.value)
           [] n.kind = "DefinitionList" -> DLToBorrowed(order)
           [] n.kind = "Paragraph" -> ParagraphToBorrowed(n.value)
           [] n.kind = "Divider" -> DividerToBorrowed(n.value))
NodeIntoOwned(n, order) ==
    Node(n.kind,
         CASE n.kind = "Text" -> TextIntoOwned(n.value)
           [] n.kind \in {"DecoratedTextContent", "DecoratedText"} -> DTCIntoOwned(n.value)
           [] n.kind = "Term" -> DLVIntoOwned(n.value)
           [] n.kind = "DefinitionList" -> DLIntoOwned(order)
           [] n.kind = "Paragraph" -> ParagraphIntoOwned(n.value)
           [] n.kind = "Divider" -> DividerIntoOwned(n.value))
NodeClone(n) == n

\* a == b and a.strict_eq(&b) at each kind
NodeEq(a, b) ==
    CASE a.kind \in {"Text", "DecoratedTextContent", "DecoratedText"} -> ElementEq(a.value, b.value)
      [] a.kind = "Term" -> DLVEq(a.value, b.value)
      [] a.kind = "DefinitionList" -> DLEq(a.value, b.value)
      [] a.kind = "Paragraph" -> ParagraphEq(a.value, b.value)
      [] a.kind = "Divider" -> TRUE
NodeStrictEq(a, b) ==
    CASE a.kind \in {"Text", "DecoratedTextContent", "DecoratedText"} -> ElementStrictEq(a.value, b.value)
      [] a.kind = "Term" -> DLVStrictEq(a.value, b.value)
      [] a.kind = "DefinitionList" -> DLStrictEq(a.value, b.value)
      [] a.kind = "Paragraph" -> ParagraphStrictEq(a.value, b.value)
      [] a.kind = "Divider" -> DividerStrictEq(a.value, b.value)

\* the elements the model draws from
MaxEntries == 2
Cows == {"Borrowed", "Owned"}
TextPool == {TextCow(str, c) : str \in {<<"t">>, <<"t", "e">>}, c \in Cows}
SpanTe == SpanAt(<<"t", "\n", "e">>, 1)
ChildPool ==
    {LocatedNew(TextCow(<<"t">>, "Borrowed"), LazyBorrowed(SpanTe)),
     LocatedNew(TextCow(<<"e">>, "Owned"), LazyOwned(Region(1, 2, 3, 4))),
     LocatedFrom(DecoratedText("Italic", <<LocatedFrom(TextCow(<<"t">>, "Borrowed")),
                                           LocatedFrom(Keyword("Todo"))>>))}
DecoratedTextPool ==
    {DecoratedText(d, cs) : d \in {"Bold", "Italic"}, cs \in SeqsUpTo(ChildPool, MaxChildren)}
ContainerPool ==
    {<<LocatedFrom(TextCow(<<"t", "e", "r", "m">>, "Owned"))>>,
     <<LocatedNew(TextCow(<<"t">>, "Borrowed"), LazyBorrowed(SpanTe)),
       LocatedFrom(TextCow(<<"e">>, "Borrowed")),
       LocatedFrom(TextCow(<<"r">>, "Borrowed")),
       LocatedFrom(TextCow(<<"m">>, "Borrowed"))>>,
     <<LocatedFrom(TextCow(<<"t", "e">>, "Borrowed"))>>,
     <<LocatedFrom(DecoratedText("Bold", <<LocatedFrom(TextCow(<<"t">>, "Owned"))>>)),
       LocatedNew(TextCow(<<"e">>, "Borrowed"), LazyOwned(Region(2, 1, 2, 5)))>>}
OwnTermPool == {DLVNew(c) : c \in ContainerPool}
OwnPairPool ==
    {[term |-> LocatedNew(t, r), definitions |-> d] :
        t \in OwnTermPool, r \in {DefaultLazyRegion},
        d \in {<<>>, <<LocatedNew(DLVNew(<<LocatedFrom(TextCow(<<"x">>, "Borrowed"))>>),
                                  LazyBorrowed(SpanTe))>>}}
DefinitionListPool == {DLFrom(ps) : ps \in SeqsUpTo(OwnPairPool, MaxEntries)}
NodePool ==
    {Node("Text", t) : t \in TextPool}
    \cup {Node("DecoratedTextContent", e) :
            e \in TextPool \cup {Keyword("Todo"), Keyword("Done")} \cup DecoratedTextPool}
    \cup {Node("DecoratedText", e) : e \in DecoratedTextPool}
    \cup {Node("Term", t) : t \in OwnTermPool}
    \cup {Node("DefinitionList", l) : l \in DefinitionListPool}
    \cup {Node("Paragraph", [content |-> c]) : c \in ContainerPool}
    \cup {Node("Divider", Divider)}

NotConverted == [done |-> FALSE]
NotCompared == [done |-> FALSE]

OwnIdle ==
    /\ own = Node("Divider", Divider)
    /\ ownB = Node("Divider", Divider)
    /\ ownOut = NotConverted
    /\ ownCmp = NotCompared

OwnInit ==
    /\ own \in NodePool
    /\ ownB \in {n \in NodePool : n.kind = own.kind}
    /\ ownOut = NotConverted
    /\ ownCmp = NotCompared

\* own.to_borrowed().into_owned() and own.clone().into_owned()
Convert ==
    /\ ownOut = NotConverted
    /\ \E o1 \in Orders(own) :
          LET b == NodeToBorrowed(own, o1)
          IN  \E o2 \in Orders(b), o3 \in Orders(NodeClone(own)) :
                ownOut' = [done |-> TRUE, borrowed |-> b,
                           viaBorrowed |-> NodeIntoOwned(b, o2),
                           viaClone |-> NodeIntoOwned(NodeClone(own), o3)]
    /\ UNCHANGED <<own, ownB, ownCmp>>
    /\ UNCHANGED ownOthers

\* own == ownB and own.strict_eq(&ownB)
Compare ==
    /\ ownCmp = NotCompared
    /\ ownCmp' = [done |-> TRUE, eq |-> NodeEq(own, ownB), strict |-> NodeStrictEq(own, ownB)]
    /\ UNCHANGED <<own, ownB, ownOut>>
    /\ UNCHANGED ownOthers

(***************************************************************************)
(* Rendering an inline element and parsing the rendered text               *)
(***************************************************************************)

MaxSource == 4

\* the markers of the decorations
Marker(d) == IF d = "Bold" THEN "*" ELSE "_"
IsMarker(c) == c = "*" \/ c = "_"
Plain(str) == \A i \in 1..Len(str) : ~IsMarker(str[i])

\* str is marker, a non-empty text without markers, marker
Wrapped(str, d) ==
    /\ Len(str) >= 3
    /\ str[1] = Marker(d) /\ str[Len(str)] = Marker(d)
    /\ Plain(SubSeq(str, 2, Len(str) - 1))

\* the inline element parser on a whole text: decorated text between its
\* markers, with the text between them as its content, located at the span
\* it was read from; plain text without markers; nothing else is parsed
inline_element(str) ==
    IF \E d \in {"Bold", "Italic"} : Wrapped(str, d)
    THEN LET d == CHOOSE x \in {"Bold", "Italic"} : Wrapped(str, x)
             inner == SubSeq(str, 2, Len(str) - 1)
         IN  Ok(SpanAt(str, Len(str)),
                DecoratedText(d, <<LocatedNew(TextCow(inner, "Borrowed"),
                                   LazyBorrowed(SpanAt(SubSeq(str, 1, Len(str) - 1), 1)))>>))
    ELSE IF str # <<>> /\ Plain(str)
    THEN Ok(SpanAt(str, Len(str)), TextCow(str, "Borrowed"))
    ELSE Err(from_ctx(SpanFrom(str), "Inline Element"))

SourceChars == {"a", "*", "_"}
NotParsed == [done |-> FALSE]
Parsed(result) == [done |-> TRUE, result |-> result]

RtIdle ==
    /\ rtSrc = <<>>
    /\ rtNode = NotParsed
    /\ rtText = None
    /\ rtAgain = NotParsed

RtInit ==
    /\ rtSrc \in SeqsUpTo(SourceChars, MaxSource)
    /\ rtNode = NotParsed
    /\ rtText = None
    /\ rtAgain = NotParsed

\* the element is parsed from the source text
ParseSource ==
    /\ rtNode = NotParsed
    /\ rtNode' = Parsed(inline_element(rtSrc))
    /\ UNCHANGED <<rtSrc, rtText, rtAgain>>
    /\ UNCHANGED rtOthers

\* node.to_string()
Render ==
    /\ rtNode # NotParsed /\ rtNode.result.ok
    /\ rtText = None
    /\ rtText' = Some(ElementToString(rtNode.result.out))
    /\ UNCHANGED <<rtSrc, rtNode, rtAgain>>
    /\ UNCHANGED rtOthers

\* the rendered text is parsed
Reparse ==
    /\ rtText # None
    /\ rtAgain = NotParsed
    /\ rtAgain' = Parsed(inline_element(rtText.val))
    /\ UNCHANGED <<rtSrc, rtNode, rtText>>
    /\ UNCHANGED rtOthers

(***************************************************************************)
(* Program::run                                                            *)
(***************************************************************************)

MaxRequests == 3
MaxChanges == 3

Modes == {"Stdin", "Http"}
\* match config.mode: the front-end that is run
FrontEndOf_AlwaysStdin(mode) == "stdin::run"
FrontEndOf(mode) == IF mode = "Stdin" THEN "stdin::run" ELSE "server::run"

NoWatcher == [state |-> "none", changes |-> 0]
NoFrontEnd == [state |-> "none", name |-> "none", served |-> 0]

ProgIdle ==
    /\ prMode = "Stdin"
    /\ prPc = "load"
    /\ prDb = "none"
    /\ prWatcher = NoWatcher
    /\ prFront = NoFrontEnd
    /\ prRet = None
    /\ prLog = <<>>

ProgInit ==
    /\ prMode \in Modes
    /\ prPc = "load"
    /\ prDb = "none"
    /\ prWatcher = NoWatcher
    /\ prFront = NoFrontEnd
    /\ prRet = None
    /\ prLog = <<>>

\* database::load(&config).await is Ok
LoadDatabaseOk ==
    /\ prPc = "load"
    /\ prDb' = "loaded"
    /\ prPc' = "watch"
    /\ prLog' = Append(prLog, "database::load Ok")
    /\ UNCHANGED <<prMode, prWatcher, prFront, prRet>>
    /\ UNCHANGED progOthers

\* database::load(&config).await is Err: map_err(ProgramError::from)?
LoadDatabaseErr ==
    /\ prPc = "load"
    /\ prDb' = "failed"
    /\ prPc' = "done"
    /\ prRet' = Some(Err("LoadDatabase"))
    /\ prLog' = Append(prLog, "database::load Err")
    /\ UNCHANGED <<prMode, prWatcher, prFront>>
    /\ UNCHANGED progOthers

\* Watcher::initialize(&config, database).await is Ok
WatcherInitializeOk ==
    /\ prPc = "watch"
    /\ prWatcher' = [state |-> "alive", changes |-> 0]
    /\ prPc' = "front"
    /\ prLog' = Append(prLog, "Watcher::initialize Ok")
    /\ UNCHANGED <<prMode, prDb, prFront, prRet>>
    /\ UNCHANGED progOthers

\* Watcher::initialize(&config, database).await is Err
WatcherInitializeErr ==
    /\ prPc = "watch"
    /\ prWatcher' = [state |-> "failed", changes |-> 0]
    /\ prPc' = "done"
    /\ prRet' = Some(Err("FileWatcher"))
    /\ prLog' = Append(prLog, "Watcher::initialize Err")
    /\ UNCHANGED <<prMode, prDb, prFront>>
    /\ UNCHANGED progOthers

\* match config.mode { .. }: the front-end is called
StartFrontEnd ==
    /\ prPc = "front"
    /\ prFront' = [state |-> "running", name |-> FrontEndOf(prMode), served |-> 0]
    /\ prPc' = "serving"
    /\ prLog' = Append(prLog, FrontEndOf(prMode))
    /\ UNCHANGED <<prMode, prDb, prWatcher, prRet>>
    /\ UNCHANGED progOthers

\* the running front-end serves a request
Serve ==
    /\ prPc = "serving"
    /\ prFront.served < MaxRequests
    /\ prFront' = [prFront EXCEPT !.served = @ + 1]
    /\ UNCHANGED <<prMode, prPc, prDb, prWatcher, prRet, prLog>>
    /\ UNCHANGED progOthers

\* the watcher, while it lives, sees a change of a file
WatcherChange ==
    /\ prWatcher.state = "alive"
    /\ prWatcher.changes < MaxChanges
    /\ prWatcher' = [prWatcher EXCEPT !.changes = @ + 1]
    /\ UNCHANGED <<prMode, prPc, prDb, prFront, prRet, prLog>>
    /\ UNCHANGED progOthers

\* stdin::run(config).await or server::run(config).await returns
FrontEndReturns ==
    /\ prPc = "serving"
    /\ prFront' = [prFront EXCEPT !.state = "returned"]
    /\ prPc' = "return"
    /\ prLog' = Append(prLog, "front-end returned")
    /\ UNCHANGED <<prMode, prDb, prWatcher, prRet>>
    /\ UNCHANGED progOthers

\* Ok(()): run returns and _watcher is dropped
ReturnOk ==
    /\ prPc = "return"
    /\ prRet' = Some(Ok(<<>>, <<>>))
    /\ prWatcher' = [prWatcher EXCEPT !.state = "dropped"]
    /\ prPc' = "done"
    /\ prLog' = Append(prLog, "Ok")
    /\ UNCHANGED <<prMode, prDb, prFront>>
    /\ UNCHANGED progOthers

(***************************************************************************)
(* Specifications                                                          *)
(***************************************************************************)

LocNext == HsInsert \/ HsGet
DLNext == BuildFrom \/ GetTerm

OrNext == CallOr
DispNext == WrapContext \/ WrapAppend \/ Display

ProgNext ==
    \/ LoadDatabaseOk \/ LoadDatabaseErr
    \/ WatcherInitializeOk \/ WatcherInitializeErr
    \/ StartFrontEnd \/ Serve \/ WatcherChange \/ FrontEndReturns \/ ReturnOk
FoldNext == FoldFirst \/ FoldOr
RtNext == ParseSource \/ Render \/ Reparse
OwnNext == Convert \/ Compare
RegNext == Map \/ AsRef \/ IntoOwned \/ TakeAtLine
ParNext == ParagraphStart \/ ParagraphFirstLine \/ ParagraphNextLine \/ ParagraphFinish

Init == LocInit /\ DLIdle /\ OrIdle /\ DispIdle /\ ParIdle /\ RegIdle /\ OwnIdle /\ RtIdle /\ FoldIdle /\ ProgIdle
Next == LocNext
Spec == Init /\ [][Next]_vars

DefListInit == LocInit /\ DLInit /\ OrIdle /\ DispIdle /\ ParIdle /\ RegIdle /\ OwnIdle /\ RtIdle /\ FoldIdle /\ ProgIdle
SpecDefList == DefListInit /\ [][DLNext]_vars

OrSpecInit == LocInit /\ DLIdle /\ OrInit /\ DispIdle /\ ParIdle /\ RegIdle /\ OwnIdle /\ RtIdle /\ FoldIdle /\ ProgIdle
SpecOr == OrSpecInit /\ [][OrNext]_vars

DisplayInit == LocInit /\ DLIdle /\ OrIdle /\ DispInit /\ ParIdle /\ RegIdle /\ OwnIdle /\ RtIdle /\ FoldIdle /\ ProgIdle
SpecDisplay == DisplayInit /\ [][DispNext]_vars

ParagraphInit == LocInit /\ DLIdle /\ OrIdle /\ DispIdle /\ ParInit /\ RegIdle /\ OwnIdle /\ RtIdle /\ FoldIdle /\ ProgIdle
SpecParagraph == ParagraphInit /\ [][ParNext]_vars

RegionInit == LocInit /\ DLIdle /\ OrIdle /\ DispIdle /\ ParIdle /\ RegInit /\ OwnIdle /\ RtIdle /\ FoldIdle /\ ProgIdle
SpecRegion == RegionInit /\ [][RegNext]_vars

ElementsInit == LocInit /\ DLIdle /\ OrIdle /\ DispIdle /\ ParIdle /\ RegIdle /\ OwnInit /\ RtIdle /\ FoldIdle /\ ProgIdle
SpecElements == ElementsInit /\ [][OwnNext]_vars

RoundTripInit == LocInit /\ DLIdle /\ OrIdle /\ DispIdle /\ ParIdle /\ RegIdle /\ OwnIdle /\ RtInit /\ FoldIdle /\ ProgIdle
SpecRoundTrip == RoundTripInit /\ [][RtNext]_vars

OrFoldInit == LocInit /\ DLIdle /\ OrIdle /\ DispIdle /\ ParIdle /\ RegIdle /\ OwnIdle /\ RtIdle /\ FoldInit /\ ProgIdle
SpecOrFold == OrFoldInit /\ [][FoldNext]_vars

ProgramInit == LocInit /\ DLIdle /\ OrIdle /\ DispIdle /\ ParIdle /\ RegIdle /\ OwnIdle /\ RtIdle /\ FoldIdle /\ ProgInit
SpecProgram == ProgramInit /\ [][ProgNext]_vars

(***************************************************************************)
(* Properties                                                              *)
(***************************************************************************)

\* C1: equality and hashing of Located<T> use the element alone: two located
\* values compare equal iff their elements are equal (also against a bare
\* element), equal elements hash identically whatever the regions, and a
\* hash-set lookup returns the stored entry (with the stored region) whose
\* element equals the probe's, and nothing when no stored element equals it.
C1_LocatedElementOnly ==
    /\ \A c \in cmp :
          /\ c.eq <=> (c.a.element = c.b.element)
          /\ c.eqInner <=> (c.a.element = c.b.element)
          /\ (c.a.element = c.b.element) => c.ha = c.hb
    /\ probe.some =>
          LET same == {s \in hs : s.element = probe.val.element}
          IN  IF same = {} THEN found = None
              ELSE found.some /\ found.val \in same /\ Cardinality(same) = 1

\* a lookup with a probe of equal element and different region found the
\* stored entry and its region, and a second stored entry with the probe's
\* region and another element did not answer it
C1_Witness ==
    /\ probe.some /\ found.some
    /\ found.val.lazy_region # probe.val.lazy_region
    /\ \E s \in hs : s.lazy_region = probe.val.lazy_region /\ s.element # probe.val.element
    /\ \E c \in cmp : c.eq /\ c.a.lazy_region # c.b.lazy_region

\* the rendered text of a located term or definition, the texts and the
\* last pair of a text in a vector of pairs, the permutations of a vector
Rendered(lv) == DLVToString(lv.element)
Texts(ps) == {Rendered(ps[i].term) : i \in 1..Len(ps)}
IndicesOf(ps, text) == {i \in 1..Len(ps) : Rendered(ps[i].term) = text}
LastIndexOf(ps, text) == CHOOSE i \in IndicesOf(ps, text) : \A j \in IndicesOf(ps, text) : j <= i
SameRendered(v, w) == Len(v) = Len(w) /\ \A i \in 1..Len(v) : Rendered(v[i]) = Rendered(w[i])
IndexPermutations ==
    [n \in 0..(MaxPairs + 1) |->
        {g \in [1..n -> 1..n] : \A i, j \in 1..n : g[i] = g[j] => i = j}]
Reorderings(ps) == {[i \in 1..Len(ps) |-> ps[f[i]]] : f \in IndexPermutations[Len(ps)]}

\* C2: default equality and hashing of a Term/Definition depend only on its
\* rendered text: a key and a probe are equal (also against the probe's
\* container, String and &str) exactly when they render to the same text,
\* they then hash identically whatever their tokenization, and a list keyed
\* by the one is hit by a lookup with the other.
C2_ValueEqHashByRenderedText ==
    /\ \A c \in dlCmp :
          LET same == DLVToString(c.a) = DLVToString(c.b)
          IN  /\ c.eq <=> same
              /\ c.eqContainer <=> same
              /\ c.eqString <=> same
              /\ c.eqStr <=> same
              /\ same => c.ha = c.hb
    /\ (dlProbe.some /\ \E e \in dl.list.mapping : Rendered(e.key) = DLVToString(dlProbe.val))
          => dlGot.some

\* a lookup with a probe tokenized differently from the stored key hit it
C2_Witness ==
    /\ dlProbe.some /\ dlGot.some
    /\ \E c \in dlCmp : c.eq /\ c.a # c.b /\ Len(c.a.container) # Len(c.b.container)

\* the list was built from "term" as one Text run with definitions D1, then
\* "t"+"e"+"r"+"m" as four Text runs with definitions D2
TermThenFourRuns ==
    /\ dl # NotBuilt
    /\ Len(pairs) = 2
    /\ pairs[1].term.element = TermOne
    /\ pairs[2].term.element = TermFour

RECURSIVE Occurs(_, _)
Occurs(x, v) == v # <<>> /\ (Head(v) = x \/ Occurs(x, Tail(v)))

\* C3 as stated: the two terms collide to one key and get("term") returns the
\* combined definitions, every definition of D1 and every definition of D2.
C3_CombinedDefinitions ==
    TermThenFourRuns =>
        /\ Cardinality(dl.list.mapping) = 1
        /\ dlProbe = Some(TermOne) =>
              /\ dlGot.some
              /\ \A i \in 1..2 : \A k \in 1..Len(pairs[i].definitions) :
                    Occurs(pairs[i].definitions[k], dlGot.val)

\* C3 amended: the two terms collide to one key, the key stored is the first
\* pair's term, and get("term") returns exactly D2, the definitions of the
\* pair inserted last; D1 is overwritten.
C3_LastDefinitionsOnly ==
    TermThenFourRuns =>
        /\ Cardinality(dl.list.mapping) = 1
        /\ \A e \in dl.list.mapping : e.key = pairs[1].term
        /\ dlProbe = Some(TermOne) => dlGot = Some(pairs[2].definitions)

\* get("term") ran on a list built from the two terms with D1 non-empty and
\* different from D2
C3_Witness ==
    /\ TermThenFourRuns
    /\ dlProbe = Some(TermOne)
    /\ pairs[1].definitions # <<>>
    /\ pairs[1].definitions # pairs[2].definitions

\* C4: duplicate insertion overwrites: the number of keys is the number of
\* distinct rendered term texts of the pairs, and get of a text that occurs
\* returns exactly the definitions of the last pair whose term renders to it.
C4_DuplicateInsertionOverwrites ==
    dl # NotBuilt =>
        /\ Cardinality(dl.list.mapping) = Cardinality(Texts(pairs))
        /\ (dlProbe.some /\ DLVToString(dlProbe.val) \in Texts(pairs)) =>
              dlGot = Some(pairs[LastIndexOf(pairs, DLVToString(dlProbe.val))].definitions)

\* get ran for a text that three pairs carry, with different definitions in
\* the first and the last of them
C4_Witness ==
    /\ dl # NotBuilt /\ dlProbe.some
    /\ LET idx == IndicesOf(pairs, DLVToString(dlProbe.val))
       IN  /\ Cardinality(idx) >= 2
           /\ \E i \in idx : pairs[i].definitions # pairs[LastIndexOf(pairs, DLVToString(dlProbe.val))].definitions
    /\ Cardinality(dl.list.mapping) = 2

\* C5 as stated: for every permutation of the pairs, the list built from it
\* is equal to the list built from the pairs and answers every get alike.
C5_AnyPermutation ==
    dl # NotBuilt =>
        \A q \in Reorderings(pairs) :
            LET other == DLFrom(q)
            IN  /\ DLEq(dl.list, other)
                /\ \A t \in ProbePool : OptDefsEq(DLGet(dl.list, t), DLGet(other, t))

\* pairs whose terms render to the same text carry definitions that render
\* alike, one by one
NoConflictingDuplicates(ps) ==
    \A i, j \in 1..Len(ps) :
        Rendered(ps[i].term) = Rendered(ps[j].term)
            => SameRendered(ps[i].definitions, ps[j].definitions)

\* C5 amended: when no two pairs give the same rendered term text different
\* definitions, every permutation of the pairs builds an equal list that
\* answers every get alike.
C5_PermutationWithoutConflicts ==
    (dl # NotBuilt /\ NoConflictingDuplicates(pairs)) =>
        \A q \in Reorderings(pairs) :
            LET other == DLFrom(q)
            IN  /\ DLEq(dl.list, other)
                /\ DLEq(other, dl.list)
                /\ \A t \in ProbePool : OptDefsEq(DLGet(dl.list, t), DLGet(other, t))

\* a list was built from three pairs without conflicts, two of them with the
\* same text under different tokenizations and regions, one with another text
C5_Witness ==
    /\ dl # NotBuilt /\ Len(pairs) = 3
    /\ NoConflictingDuplicates(pairs)
    /\ Cardinality(Texts(pairs)) = 2
    /\ \E i, j \in 1..3 :
          /\ Rendered(pairs[i].term) = Rendered(pairs[j].term)
          /\ pairs[i].term # pairs[j].term
          /\ pairs[i].definitions # pairs[j].definitions

\* C6: get tells a present term from an absent one: for a text carried by
\* exactly one pair it returns Some of that pair's definitions, in their
\* order (Some of the empty vector when the pair has none); for a text no
\* pair carries it returns None.
C6_GetPresentOrAbsent ==
    (dl # NotBuilt /\ dlProbe.some) =>
        LET idx == IndicesOf(pairs, DLVToString(dlProbe.val))
        IN  /\ idx = {} => dlGot = None
            /\ Cardinality(idx) = 1 => dlGot = Some(pairs[CHOOSE i \in idx : TRUE].definitions)

\* get ran for an absent text on a list that holds one term with an empty
\* and one with a two-element definitions vector
C6_Witness ==
    /\ dl # NotBuilt /\ dlProbe.some /\ dlGot = None
    /\ \E e \in dl.list.mapping : e.value = <<>>
    /\ \E e \in dl.list.mapping : Len(e.value) = 2

\* get returned Some of the empty vector for a term inserted without definitions
C6_WitnessEmpty ==
    /\ dl # NotBuilt /\ dlProbe.some /\ dlGot = Some(<<>>)
    /\ Cardinality(IndicesOf(pairs, DLVToString(dlProbe.val))) = 1


\* C7: a.or(b) returns a, unchanged with its cause chain, when a's failure
\* cursor has a strictly greater consumed offset than b's, and b unchanged
\* otherwise; on equal offsets the second alternative's error is returned.
C7_OrGreaterOffsetWins ==
    \A k \in 1..Len(orOut) :
        /\ errA.input.offset > errB.input.offset => orOut[k] = errA
        /\ errA.input.offset <= errB.input.offset => orOut[k] = errB

\* or ran on two different errors with equal offsets, the second of them
\* with a cause chain, and on equal offsets the second was returned
C7_Witness ==
    /\ Len(orOut) >= 1
    /\ errA.input.offset = errB.input.offset /\ errA.input.offset > 0
    /\ errA # errB
    /\ errB.next.some
    /\ orOut[1] = errB

\* the error of the two whose cursor has the smaller remaining length
SmallerRemaining(a, b) == IF remaining_len(a.input) < remaining_len(b.input) THEN a ELSE b

\* C8 as stated: for any two errors the error model can construct whose
\* cursors have differing remaining lengths, or returns the one with the
\* smaller remaining length, the same on every repetition.
C8_SmallerRemainingAnyPair ==
    remaining_len(errA.input) # remaining_len(errB.input) =>
        \A k \in 1..Len(orOut) : orOut[k] = SmallerRemaining(errA, errB)

\* C8 amended: for any two errors whose failure cursors are views of the
\* same input buffer with differing remaining lengths, or returns the one
\* with the smaller remaining length, the same on every repetition.
C8_SmallerRemainingSameBuffer ==
    (errA.input.buf = errB.input.buf /\ remaining_len(errA.input) # remaining_len(errB.input)) =>
        \A k \in 1..Len(orOut) : orOut[k] = SmallerRemaining(errA, errB)

\* or ran twice on two errors over the same input, the first with the
\* smaller remaining length, and returned the first both times
C8_Witness ==
    /\ Len(orOut) >= 2
    /\ errA.input.buf = errB.input.buf
    /\ remaining_len(errA.input) < remaining_len(errB.input)
    /\ orOut[1] = errA /\ orOut[2] = errA

\* the links of a cause chain, outermost first
RECURSIVE Links(_)
Links(e) == <<e>> \o (IF e.next.some THEN Links(e.next.val) ELSE <<>>)

\* the first n characters of s, all of s when it is shorter
Truncated(s, n) == SubSeq(s, 1, IF Len(s) < n THEN Len(s) ELSE n)

\* C9: Display completes and emits one entry per link of the cause chain,
\* from the outermost context to the innermost cause, each with the link's
\* context, the line and column of its cursor and the remaining input
\* truncated to at most PreviewLen bytes, whatever the remaining length.
C9_DisplayRendersChain ==
    shown # NotShown =>
        LET links == Links(dErr)
            out == shown.result.out
        IN  /\ shown.result.ok
            /\ Len(out) = 2 * Len(links)
            /\ \A i \in 1..Len(links) :
                  /\ out[2 * i - 1] = [kind |-> "head", ctx |-> links[i].ctx,
                                       line |-> line(links[i].input),
                                       column |-> column(links[i].input)]
                  /\ out[2 * i] = [kind |-> "input",
                                   preview |-> Truncated(as_unsafe_remaining_str(links[i].input), PreviewLen)]

\* Display ran on a chain of three links, each with at least PreviewLen
\* bytes of input left, and completed
C9_DisplayCompleted ==
    /\ shown # NotShown /\ shown.result.ok
    /\ ChainLen(dErr) = 3

\* the input at the cursor begins with a space or a tab
Indented(span) == remaining_len(span) > 0 /\ IsSpace(span.buf[span.offset + 1])

\* C10: the paragraph production fails, returning an error and no
\* Paragraph, for every input whose first line begins with one or more
\* space or tab characters, whatever follows on that line or on later lines.
C10_IndentedFirstLineFails ==
    Indented(pIn) =>
        /\ pc \in {"start", "done"}
        /\ pc = "done" => (pOut # NotRun /\ ~pOut.result.ok)

\* the production ran at the beginning of an input whose first line is an
\* indented line of text, followed by a second line of text, and failed at
\* the indentation guard
C10_Witness ==
    /\ pOut # NotRun /\ ~pOut.result.ok
    /\ pIn = SpanFrom(<<" ", "a", "\n", "a">>)
    /\ pOut.result.err.ctx = "Negation"

\* the text of the line at the cursor, without its line ending
LineAt(span) ==
    SubSeq(span.buf, span.offset + 1,
           span.offset + CountToLineEnd(as_unsafe_remaining_str(span)))
\* the line at the cursor is empty or holds spaces and tabs only
BlankAt(span) == \A i \in 1..Len(LineAt(span)) : IsSpace(LineAt(span)[i])
\* the cursor behind the line at the cursor and its line ending
AfterLine(span) ==
    LET e == span.offset + Len(LineAt(span))
    IN  SpanAt(span.buf, IF e < Len(span.buf) THEN e + 1 ELSE e)
\* paragraph has returned Ok / Err
ParOk == pc = "done" /\ pOut.result.ok
ParErr == pc = "done" /\ ~pOut.result.ok

\* C11: the paragraph production fails when the line at the cursor is blank
\* (empty or whitespace only); every successful parse has consumed at least
\* one complete non-blank line and yields a Paragraph with non-empty content.
C11_OneOrMoreNonBlankLines ==
    pc = "done" =>
        /\ BlankAt(pIn) => ~pOut.result.ok
        /\ pOut.result.ok =>
              /\ ~BlankAt(pIn)
              /\ pOut.result.rest.offset >= AfterLine(pIn).offset
              /\ pOut.result.rest.offset > pIn.offset
              /\ pOut.result.out.component.content # <<>>

\* the production ran in front of an empty line that text follows, passed
\* the indentation guard and failed because many1 found no non-blank line
C11_Witness ==
    /\ ParErr
    /\ pIn = SpanFrom(<<"\n", "a">>)
    /\ pOut.result.err.ctx = "Paragraph"

\* the offsets at which the lines of the input at and after the cursor start
LineStarts(span) ==
    {span.offset} \cup {o \in (span.offset + 1)..(Len(span.buf) - 1) : span.buf[o] = "\n"}
\* those of them at which a blank line starts
BlankLineStarts(span) == {o \in LineStarts(span) : BlankAt(SpanAt(span.buf, o))}
Min(S) == CHOOSE x \in S : \A y \in S : x <= y

\* C12: a successful paragraph parse consumes only the lines before the
\* first blank line: none of the consumed lines is blank, and when the input
\* has a blank line the returned remaining input starts with that blank
\* line, which is not consumed.
C12_NeverCrossesBlankLine ==
    ParOk =>
        LET rest == pOut.result.rest
        IN  /\ \A o \in LineStarts(pIn) : o < rest.offset => o \notin BlankLineStarts(pIn)
            /\ BlankLineStarts(pIn) # {} =>
                  /\ rest.offset = Min(BlankLineStarts(pIn))
                  /\ BlankAt(rest) /\ remaining_len(rest) > 0

\* the production ran on a line of text, an empty line and further text,
\* and returned the first line with the cursor in front of the empty line
C12_Witness ==
    /\ ParOk
    /\ pIn = SpanFrom(<<"a", "\n", "\n", "a">>)
    /\ pOut.result.rest = SpanAt(pIn.buf, 2)
    /\ pOut.result.out.component.content = <<Text(<<"a">>)>>

\* C13: whenever the paragraph production succeeds, the remaining input it
\* returns is empty or begins, at the start of a line, with a blank line; it
\* never stops in front of a non-blank line.
C13_EndsAtBlankLineOrEndOfInput ==
    ParOk =>
        LET rest == pOut.result.rest
        IN  \/ remaining_len(rest) = 0
            \/ column(rest) = 1 /\ BlankAt(rest)

\* the production ran on two lines of text, the second ending the input,
\* took both and returned the end of the input
C13_Witness ==
    /\ ParOk
    /\ pIn = SpanFrom(<<"a", "\n", "a", "a">>)
    /\ Len(pAcc) = 2
    /\ remaining_len(pOut.result.rest) = 0

\* the offset at which the k-th line at and after the cursor starts
LineStart(span, k) ==
    CHOOSE o \in LineStarts(span) : Cardinality({q \in LineStarts(span) : q <= o}) = k
\* the leading spaces and tabs of a text
LeadingSpace(str) == SubSeq(str, 1, CountSpaces(str))

\* C14: in a paragraph whose first line is unindented, a second or later
\* non-blank line that begins with spaces or tabs neither ends nor fails the
\* paragraph, and its leading whitespace is, unstripped, the beginning of a
\* Text element of the content at the position of that line.
C14_IndentedContinuationKept ==
    ParOk =>
        LET rest == pOut.result.rest
            content == pOut.result.out.component.content
        IN  /\ ~(remaining_len(rest) > 0 /\ Indented(rest) /\ ~BlankAt(rest))
            /\ \A k \in 2..Len(pAcc) :
                  LET ln == LineAt(SpanAt(pIn.buf, LineStart(pIn, k)))
                      at == Len(Flatten(SubSeq(pAcc, 1, k - 1))) + 1
                  IN  ln # <<>> /\ IsSpace(ln[1]) =>
                          /\ at <= Len(content)
                          /\ content[at].type = "Text"
                          /\ LeadingSpace(content[at].text) = LeadingSpace(ln)

\* the production ran on an unindented line and an indented second line,
\* and returned both, the second with its leading space
C14_Witness ==
    /\ ParOk
    /\ pIn = SpanFrom(<<"a", "\n", " ", "a">>)
    /\ pOut.result.out.component.content = <<Text(<<"a">>), Text(<<" ", "a">>)>>

\* the text of a sequence of Text elements, one after the other
TextOf(content) == Flatten([i \in 1..Len(content) |-> content[i].text])
\* str without its line endings
WithoutLineEndings(str) == SelectSeq(str, LAMBDA c : c # "\n")

C16_FailsWithoutConsuming ==
    /\ [](ParErr =>
            /\ DOMAIN pOut.result = {"ok", "err"}
            /\ \A k \in 1..Len(Links(pOut.result.err)) :
                  Links(pOut.result.err)[k].input = pIn)
    /\ [][pIn' = pIn]_vars

\* the production was called in the middle of a line and failed there, at
\* the cursor it was called with
C16_Witness ==
    /\ ParErr
    /\ pIn = SpanAt(<<"a", "\n", "a", "a">>, 3)
    /\ pOut.result.err.input = pIn

\* C17: for every LazyRegion x, x and x.into_owned() convert to the same
\* Region, into_owned twice equals into_owned once, an Owned(r) converts to
\* r itself and a Borrowed(span) to the Region computed from span; the
\* materialized node keeps its element.
C17_MaterializationIdempotentFaithful ==
    LET x == node.lazy_region
    IN  /\ RegionFromLazyRegion(LazyRegionIntoOwned(x)) = RegionFromLazyRegion(x)
        /\ LazyRegionIntoOwned(LazyRegionIntoOwned(x)) = LazyRegionIntoOwned(x)
        /\ RegionFromLazyRegion(tokenize_lazy_region(x)) = RegionFromLazyRegion(x)
        /\ x.kind = "Owned" => RegionFromLazyRegion(x) = x.region
        /\ x.kind = "Borrowed" => RegionFromLazyRegion(x) = RegionFromSpan(x.span)
        /\ nodeOp.op = "into_owned" =>
              /\ node.element = nodeOp.before.element
              /\ x = LazyOwned(RegionFromLazyRegion(nodeOp.before.lazy_region))

\* a node borrowed from a span that starts in the first line and ends in
\* the second was materialized to the region of that span
C17_Witness ==
    /\ nodeOp.op = "into_owned"
    /\ nodeOp.before.lazy_region = LazyBorrowed(SpanAt(<<"a", "\n", "a">>, 1))
    /\ node.lazy_region = LazyOwned(Region(1, 2, 2, 1))

\* the line and column of the i-th character of buf, counted from the text
PosOfChar(buf, i) ==
    LET nl == {j \in 1..(i - 1) : buf[j] = "\n"}
        last == IF nl = {} THEN 0 ELSE CHOOSE j \in nl : \A k \in nl : k <= j
    IN  Position(1 + Cardinality(nl), i - last)

\* the spans the node is or was, before it was materialized, borrowed from
SpansSeen ==
    (IF node.lazy_region.kind = "Borrowed" THEN {node.lazy_region.span} ELSE {})
    \cup (IF nodeOp.op = "into_owned" /\ nodeOp.before.lazy_region.kind = "Borrowed"
          THEN {nodeOp.before.lazy_region.span} ELSE {})

\* C18: the region of a span with nothing remaining at line L column C is
\* start = end = (L, C); the region of a span with something remaining
\* starts at the line and column of its first character and ends at the line
\* and column of its last character, never one past it.
C18_EndIsLastCharacter ==
    \A span \in SpansSeen :
        LET region == RegionFromSpan(span)
        IN  /\ remaining_len(span) = 0 =>
                  /\ region.start = Position(line(span), column(span))
                  /\ region.end = region.start
            /\ remaining_len(span) > 0 =>
                  /\ region.start = PosOfChar(span.buf, span.offset + 1)
                  /\ region.end = PosOfChar(span.buf, Len(span.buf))
            /\ nodeOp.op = "into_owned" /\ nodeOp.before.lazy_region = LazyBorrowed(span)
                  => node.lazy_region = LazyOwned(region)

\* a node borrowed from the span of a line and its line ending was
\* materialized: the region ends at the line ending, in line 1, and not at
\* the start of line 2
C18_Witness ==
    /\ nodeOp.op = "into_owned"
    /\ nodeOp.before.lazy_region = LazyBorrowed(SpanFrom(<<"a", "\n">>))
    /\ node.lazy_region = LazyOwned(Region(1, 1, 1, 2))

\* position a is at or before position b, by line and then by column
PosLeq(a, b) == a.line < b.line \/ (a.line = b.line /\ a.column <= b.column)

\* C19: for every Located whose region was derived from a span of the
\* input, after any sequence of map, as_ref, into_owned and take_at_line,
\* the materialized region has start <= end in (line, column) order.
C19_StartNotAfterEnd ==
    LET region == RegionFromLazyRegion(node.lazy_region)
    IN  PosLeq(region.start, region.end)

\* a node whose span starts at column 2 of one line and ends at column 1 of
\* the next was moved to line 2: its region is (2, 2) to (3, 1)
C19_Witness ==
    /\ nodeOp.op = "take_at_line"
    /\ RegionFromLazyRegion(nodeOp.before.lazy_region) = Region(1, 2, 2, 1)
    /\ node.lazy_region = LazyOwned(Region(2, 2, 3, 1))

\* C20: for a Located whose materialized region is ((sl, sc), (el, ec)) with
\* sl <= el, take_at_line(line) gives the region ((line, sc), (line + (el -
\* sl), ec)) in Owned form and leaves the element unchanged; applying
\* take_at_line(line) again changes nothing.
C20_TakeAtLineShiftsLinesOnly ==
    nodeOp.op = "take_at_line" =>
        LET b == RegionFromLazyRegion(nodeOp.before.lazy_region)
            l == nodeOp.line
        IN  b.start.line <= b.end.line =>
                /\ node.lazy_region =
                      LazyOwned(Region(l, b.start.column,
                                       l + (b.end.line - b.start.line), b.end.column))
                /\ node.element = nodeOp.before.element
                /\ take_at_line(node, l) = node

\* a node still borrowed from a span of three lines, lines 1 to 3, was
\* moved to line 2: its region is Owned and covers lines 2 to 4
C20_Witness ==
    /\ nodeOp.op = "take_at_line" /\ nodeOp.line = 2
    /\ nodeOp.before.lazy_region = LazyBorrowed(SpanFrom(<<"\n", "\n", "a">>))
    /\ node.lazy_region = LazyOwned(Region(2, 1, 4, 1))

\* the rendered text of an element; of a DefinitionList, the rendered
\* texts of its keys, each with those of its definitions
NodeRendered(n) ==
    CASE n.kind \in {"Text", "DecoratedTextContent", "DecoratedText"} -> ElementToString(n.value)
      [] n.kind = "Term" -> DLVToString(n.value)
      [] n.kind = "DefinitionList" ->
            {<<Rendered(e.key), [i \in 1..Len(e.value) |-> Rendered(e.value[i])]>> :
                e \in n.value.mapping}
      [] n.kind = "Paragraph" -> ContainerToString(n.value.content)
      [] n.kind = "Divider" -> <<>>

\* C21: for every element n, n.to_borrowed().into_owned() is strict_eq to
\* n.clone().into_owned(); to_borrowed and into_owned keep the variant, the
\* number and order of children and every text (the result is strict_eq to
\* n) and the rendered text, for a DefinitionList the keys and each key's
\* definitions.
C21_BorrowedOwnedEquivalence ==
    ownOut.done =>
        /\ NodeStrictEq(ownOut.viaBorrowed, ownOut.viaClone)
        /\ \A r \in {ownOut.borrowed, ownOut.viaBorrowed, ownOut.viaClone} :
              /\ r.kind = own.kind
              /\ NodeStrictEq(own, r) /\ NodeStrictEq(r, own)
              /\ NodeRendered(r) = NodeRendered(own)

\* a DefinitionList of two keys, one a borrowed term in four runs, was
\* converted both ways; the borrowed form and the owned form differ from it
\* in the storage of their texts only
C21_Witness ==
    /\ ownOut.done
    /\ own.kind = "DefinitionList" /\ Cardinality(own.value.mapping) = 2
    /\ \E e \in own.value.mapping : Len(e.key.element.container) = 4
    /\ ownOut.borrowed # own /\ ownOut.viaBorrowed # ownOut.borrowed
    /\ ownOut.viaBorrowed = ownOut.viaClone

\* C22: for any successfully parsed DecoratedText (or plain text) node,
\* rendering the node to text and parsing that text again succeeds and yields
\* a node that is strict_eq to the original: the same decoration with the
\* same contents.
C22_RoundTripRendering ==
    rtAgain.done =>
        /\ rtAgain.result.ok
        /\ ElementStrictEq(rtAgain.result.out, rtNode.result.out)

\* a Text was parsed, rendered and parsed again, and the result is
\* strict_eq to it
C22_TextRoundTrip ==
    /\ rtAgain.done /\ rtAgain.result.ok
    /\ rtNode.result.out.type = "Text" /\ Len(rtSrc) = 2
    /\ ElementStrictEq(rtAgain.result.out, rtNode.result.out)

\* the variants, the children in order and the texts of an element, without
\* the regions and without the ownership of the texts
RECURSIVE ElementShape(_)
ElementShape(e) ==
    IF e.type = "Text" THEN <<"Text", e.text>>
    ELSE IF e.type = "Keyword" THEN <<"Keyword", e.keyword>>
    ELSE <<"DecoratedText", e.decoration,
           [i \in 1..Len(e.contents) |-> ElementShape(e.contents[i].element)]>>
ContainerShape(c) == [i \in 1..Len(c) |-> ElementShape(c[i].element)]
DefsShape(v) == [i \in 1..Len(v) |-> ContainerShape(v[i].element.container)]
NodeShape(n) ==
    CASE n.kind \in {"Text", "DecoratedTextContent", "DecoratedText"} -> ElementShape(n.value)
      [] n.kind = "Term" -> ContainerShape(n.value.container)
      [] n.kind = "DefinitionList" ->
            {<<ContainerShape(e.key.element.container), DefsShape(e.value)>> : e \in n.value.mapping}
      [] n.kind = "Paragraph" -> ContainerShape(n.value.content)
      [] n.kind = "Divider" -> <<>>
KeyCount(n) == IF n.kind = "DefinitionList" THEN Cardinality(n.value.mapping) ELSE 0

\* C23: a.strict_eq(b) implies a == b; two nodes are strict_eq only when
\* they have the same variant, the same number of children, pairwise equal
\* children and exactly equal texts, and two DefinitionLists only with the
\* same number of keys, each key and its definitions matching; a Term whose
\* content is the one text "term" and a Term whose content is the four texts
\* "t", "e", "r", "m" are == and are not strict_eq.
C23_StrictEqFinerThanEq ==
    ownCmp.done =>
        /\ ownCmp.strict => ownCmp.eq
        /\ ownCmp.strict =>
              /\ NodeShape(own) = NodeShape(ownB)
              /\ KeyCount(own) = KeyCount(ownB)
        /\ ( /\ own.kind = "Term"
             /\ NodeShape(own) = <<<<"Text", <<"t", "e", "r", "m">> >> >>
             /\ NodeShape(ownB) = <<<<"Text", <<"t">> >>, <<"Text", <<"e">> >>,
                                    <<"Text", <<"r">> >>, <<"Text", <<"m">> >> >> )
           => ownCmp.eq /\ ~ownCmp.strict

\* the Term of one text "term" was compared with the Term of four texts:
\* equal, and not strict_eq
C23_Witness ==
    /\ ownCmp.done
    /\ own.kind = "Term"
    /\ Len(own.value.container) = 1 /\ Len(ownB.value.container) = 4
    /\ DLVToString(own.value) = <<"t", "e", "r", "m">>
    /\ ownCmp.eq /\ ~ownCmp.strict

\* DefinitionLists of two keys were compared and are strict_eq
C23_StrictWitness ==
    /\ ownCmp.done /\ ownCmp.strict /\ ownCmp.eq
    /\ own.kind = "DefinitionList" /\ KeyCount(own) = 2

\* the greatest consumed offset among the first n alternatives, and the
\* last of them that has it
MaxOffset(n) ==
    CHOOSE o \in {start_offset(fAlts[i].input) : i \in 1..n} :
        \A i \in 1..n : start_offset(fAlts[i].input) <= o
LastAtMax(n) ==
    CHOOSE i \in 1..n :
        /\ start_offset(fAlts[i].input) = MaxOffset(n)
        /\ \A j \in (i + 1)..n : start_offset(fAlts[j].input) < MaxOffset(n)

\* C24: the errors e1..en of the alternatives combined left to right with
\* or give one of the ei, unchanged: its consumed offset is the greatest of
\* all, it is the last tried among the errors with that offset, and its
\* chain is its own, with no losing error in it.
C24_FoldKeepsLastFurthest ==
    fIdx >= 1 =>
        /\ fAcc.val \in {fAlts[i] : i \in 1..fIdx}
        /\ start_offset(fAcc.val.input) = MaxOffset(fIdx)
        /\ fAcc.val = fAlts[LastAtMax(fIdx)]
        /\ Links(fAcc.val) = Links(fAlts[LastAtMax(fIdx)])

\* three alternatives were folded: the first two failed at the same,
\* greatest offset, the first of them with a cause, and the third earlier;
\* the second is the one kept
C24_Witness ==
    /\ Len(fAlts) = 3 /\ fIdx = 3
    /\ start_offset(fAlts[1].input) = start_offset(fAlts[2].input)
    /\ start_offset(fAlts[3].input) < start_offset(fAlts[2].input)
    /\ fAlts[1].next.some /\ ~fAlts[2].next.some
    /\ fAcc.val = fAlts[2]

\* an error as its constructor left it: no cause
Leaf(e) == ~e.next.some /\ ChainLen(e) = 1

\* C25: add_context(input, label, other) and append(input, kind, other)
\* return a new error whose context is the label (the description of the
\* kind), whose cursor is input and whose cause is exactly other, its chain
\* unchanged, so that the chain is longer by exactly one; the errors of
\* from_error_kind, from_char, from_ctx and unsupported() have no cause, and
\* unsupported() has the context "Unsupported" and an empty cursor.
C25_ContextChaining ==
    /\ Leaf(dErr)
    /\ Leaf(unsupported) /\ unsupported.ctx = "Unsupported"
    /\ remaining_len(unsupported.input) = 0 /\ start_offset(unsupported.input) = 0
    /\ \A i \in WrapSpans :
          Leaf(from_error_kind(i, "Tag")) /\ Leaf(from_char(i, "a")) /\ Leaf(from_ctx(i, "Paragraph"))
    /\ [][dErr' # dErr =>
            /\ dErr'.ctx \in {"Paragraph", KindDescription("Many1")}
            /\ dErr'.input \in WrapSpans
            /\ dErr'.next = Some(dErr)
            /\ ChainLen(dErr') = ChainLen(dErr) + 1
            /\ Tail(Links(dErr')) = Links(dErr)]_vars

\* unsupported() was given a context with add_context, and the result a
\* kind with append: a chain of three whose causes are the errors wrapped
C25_Witness ==
    /\ ChainLen(dErr) = 3
    /\ dErr.ctx = KindDescription("Many1")
    /\ dErr.next.val.ctx = "Paragraph" /\ dErr.next.val.input = SpanAt(ShortBuf, 1)
    /\ dErr.next.val.next.val.ctx = "Unsupported"
    /\ Links(dErr)[3] = unsupported

\* the front-ends called so far
FrontEndCalls == SelectSeq(prLog, LAMBDA c : c \in {"stdin::run", "server::run"})
ReturnedOk == prRet.some /\ prRet.val.ok
ReturnedErr(kind) == prRet = Some(Err(kind))

\* C26: in Program::run the database load completes before the watcher is
\* initialized; the front-end, stdin::run in Stdin mode and server::run in
\* Http mode and exactly one of them, starts only after both succeeded and
\* runs while the watcher is alive; when the load fails run returns
\* ProgramError::LoadDatabase with no watcher and no front-end started; when
\* the watcher fails run returns ProgramError::FileWatcher with no front-end
\* started; run returns Ok only after the front-end returned.
C26_RunOrdering ==
    /\ [](/\ prWatcher.state # "none" => prDb = "loaded"
          /\ prFront.state # "none" =>
                /\ prDb = "loaded" /\ prWatcher.state \in {"alive", "dropped"}
                /\ prFront.name = (IF prMode = "Stdin" THEN "stdin::run" ELSE "server::run")
          /\ prFront.state = "running" => prWatcher.state = "alive"
          /\ Len(FrontEndCalls) <= 1
          /\ prDb = "failed" =>
                ReturnedErr("LoadDatabase") /\ prWatcher = NoWatcher /\ prFront = NoFrontEnd
          /\ prWatcher.state = "failed" => ReturnedErr("FileWatcher") /\ prFront = NoFrontEnd
          /\ ReturnedErr("LoadDatabase") => prDb = "failed"
          /\ ReturnedErr("FileWatcher") => prWatcher.state = "failed"
          /\ ReturnedOk => prFront.state = "returned")
    /\ [][/\ (prWatcher.state = "none" /\ prWatcher'.state # "none") => prDb = "loaded"
          /\ (prFront.state = "none" /\ prFront'.state # "none") =>
                prDb = "loaded" /\ prWatcher.state = "alive" /\ prWatcher'.state = "alive"
          /\ (~prRet.some /\ prRet'.some /\ prRet'.val.ok) => prFront.state = "returned"
          /\ prRet.some => prRet' = prRet]_vars

\* in Http mode run returned Ok: the database was loaded, the watcher
\* initialized, server::run called, it served and returned, in this order,
\* while the watcher saw changes
C26_Witness ==
    /\ prMode = "Http" /\ ReturnedOk
    /\ prLog = <<"database::load Ok", "Watcher::initialize Ok", "server::run",
                 "front-end returned", "Ok">>
    /\ prFront.served >= 1 /\ prWatcher.changes >= 1

\* the database failed to load: run returned ProgramError::LoadDatabase
C26_LoadFailed == ReturnedErr("LoadDatabase") /\ prLog = <<"database::load Err">>
\* the watcher failed to start: run returned ProgramError::FileWatcher
C26_WatcherFailed ==
    ReturnedErr("FileWatcher") /\ prLog = <<"database::load Ok", "Watcher::initialize Err">>

=============================================================================
